---- MODULE Spec2Model ----
(***************************************************************************)
(* Visualization callbacks of prototorch_models:                           *)
(*   src/prototorch/models/vis.py                     (Vis2DAbstract ...)  *)
(*   src/prototorch/models/callbacks/visualization.py (VisWeights ...)     *)
(* The training-loop driver (pytorch_lightning Trainer) calls the hooks of *)
(* a callback synchronously, in a fixed order, once per epoch.             *)
(***************************************************************************)
EXTENDS Integers, Sequences, FiniteSets, TLC

\* ---------------------------------------------------------------- bounds
MaxEpochs == 4
MaxInterval == 3
MaxCoord == 2
MaxBorder == 1
MaxRes == 3
MaxCloud == 2
MaxProtos == 3
NumControllers == 2
MaxLen == 2
MaxDraws == 2

\* ------------------------------------------------------------- variables
VARIABLES
    pc,       \* position of the driver / lifecycle state of the controller
    self,     \* the fields of the callback object (set by __init__)
    trainer,  \* trainer.current_epoch, trainer.max_epochs
    ax,       \* artists on the controller's axes: set of [kind, epoch]
    sink,     \* display pauses, still images, frames, telemetry, exports
    hist,     \* history: epochs whose render cycle fired, hook results
    mesh,     \* the mesh engine's input and the grid it last produced
    ng,       \* topology graph: adjacency read and line segments drawn
    plt,      \* pyplot's process-wide figure registry (active figure last)
    ctl,      \* the controllers that share one process (canvas ownership)
    ing       \* data ingestion: the logical dataset and what __init__ stored

vars == <<pc, self, trainer, ax, sink, hist, mesh, ng, plt, ctl, ing>>

\* what the hooks of one controller's training run leave alone
notRun == <<mesh, plt, ctl, ing>>

None == "None"

\* ------------------------------------------------------------ point clouds
Coords == 0..MaxCoord
Points == Coords \X Coords

\* x[:, c].min() and x[:, c].max() of a cloud (c = 1 or 2)
ColMin(cloud, c) == CHOOSE m \in {p[c] : p \in cloud} : \A p \in cloud : m <= p[c]

ColMax(cloud, c) == CHOOSE m \in {p[c] : p \in cloud} : \A p \in cloud : m >= p[c]

\* np.vstack((x, protos)): the rows of both; only the rows' values matter here
vstack(x, protos) == x \cup protos

\* ceil(a / b) for b > 0, and 0 when a <= 0: the length numpy gives arange
CeilDiv(a, b) == IF a <= 0 THEN 0 ELSE (a + b - 1) \div b

\* np.arange(start, stop, step) with the rational step = stepNum / stepDen > 0:
\* the values start + k * step for k = 0 .. n - 1, n = ceil((stop - start) / step);
\* stop itself is never a value.  Values are kept scaled by stepDen.
arange(start, stop, stepNum, stepDen) ==
    [first |-> start * stepDen, step |-> stepNum, den |-> stepDen,
     n |-> CeilDiv((stop - start) * stepDen, stepNum)]

\* the k-th value (0-based) of an arange, scaled by its den
ArangeAt(a, k) == a.first + k * a.step

\* The mesh of VisPointProtos.on_epoch_start (voronoi): both axes are sampled
\* with the step (x_max - x_min) / resolution.  A zero step makes np.arange
\* raise ValueError, which is re-raised; a MemoryError (oom) is re-raised as
\* ValueError as well.
voronoi_mesh(x, protos, border, resolution, oom) ==
    LET cloud == vstack(x, protos)
        x_min == ColMin(cloud, 1) - border
        x_max == ColMax(cloud, 1) + border
        y_min == ColMin(cloud, 2) - border
        y_max == ColMax(cloud, 2) + border
    IN  IF x_max - x_min = 0
        THEN [status |-> "ValueError", msg |-> "x_min - x_max is 0"]
        ELSE IF oom
        THEN [status |-> "ValueError", msg |-> "Too many points"]
        ELSE [status |-> "ok",
              xs |-> arange(x_min, x_max, x_max - x_min, resolution),
              ys |-> arange(y_min, y_max, x_max - x_min, resolution),
              x_min |-> x_min, x_max |-> x_max,
              y_min |-> y_min, y_max |-> y_max]

\* ------------------------------------------------- gates of the controllers
\* a skip test that counts epochs from 1 instead of 0
skip_epoch_one_based(obj, epoch) ==
    IF obj.interval # 0
    THEN (IF (epoch + 1) % obj.interval # 0 THEN TRUE ELSE FALSE)
    ELSE FALSE

\* VisWeights._skip_epoch: a falsy interval (False, 0) never skips
skip_epoch(obj, epoch) ==
    IF obj.interval # 0
    THEN (IF epoch % obj.interval # 0 THEN TRUE ELSE FALSE)
    ELSE FALSE

\* a last-epoch test that compares with max_epochs instead of max_epochs - 1
precheck_off_by_one(obj, tr) ==
    IF obj.show_last_only
    THEN (IF tr.current_epoch # tr.max_epochs THEN FALSE ELSE TRUE)
    ELSE TRUE

\* Vis2DAbstract.precheck
precheck(obj, tr) ==
    IF obj.show_last_only
    THEN (IF tr.current_epoch # tr.max_epochs - 1 THEN FALSE ELSE TRUE)
    ELSE TRUE

\* ------------------------------------------------------------ construction
\* keyword arguments a caller may pass besides the ones every class accepts
GateKwargs ==
    {kw \in [given : SUBSET {"interval", "show_last_only"},
             interval : 0..MaxInterval, show_last_only : BOOLEAN] :
        /\ ("interval" \notin kw.given => kw.interval = 0)
        /\ ("show_last_only" \notin kw.given => kw.show_last_only = FALSE)}

\* the training samples handed to a VisPointProtos (data=None is data_none)
DataClouds == {{<<0, 0>>}, {<<0, 0>>, <<2, 1>>}}

\* the prototypes the model may hold at an epoch (pl_module.prototypes)
ProtoClouds == {{<<0, 1>>}, {<<1, 2>>, <<2, 0>>}}

\* VisWeights.__init__ (through VisPointProtos.__init__): interval is a named
\* parameter; any other keyword lands in **kwargs and goes to
\* pl.Callback.__init__, which takes none: TypeError.
VisWeights_accepts(kw) == kw.given \subseteq {"interval"}

\* Vis2DAbstract.__init__: show_last_only is a named parameter, there is no
\* **kwargs, so an interval keyword is a TypeError.
Vis2D_accepts(kw) == kw.given \subseteq {"show_last_only"}

EmptySink == [pauses |-> 0, shows |-> 0, files |-> {}, frames |-> <<>>,
              tb |-> {}, exports |-> {}]

NoKwargs == [given |-> {}, interval |-> 0, show_last_only |-> FALSE]

EmptyHist == [fired |-> {}, ret |-> {}, kw |-> NoKwargs]

Ret(hook, epoch, val) == [hook |-> hook, epoch |-> epoch, val |-> val]

VisPointProtos_init ==
    /\ pc = "idle"
    /\ \E kw \in GateKwargs, snap, save, show, display_logs, voronoi \in BOOLEAN,
          data_none, make_gif, make_mp4 \in BOOLEAN,
          data \in DataClouds, border \in 0..MaxBorder, resolution \in 1..MaxRes :
          /\ (data_none => data = CHOOSE d \in DataClouds : TRUE)
          /\ hist' = [hist EXCEPT !.kw = kw]
          /\ IF VisWeights_accepts(kw)
             THEN /\ self' = [cls |-> "VisPointProtos", interval |-> kw.interval,
                              snap |-> snap, save |-> save, show |-> show,
                              display_logs |-> display_logs, voronoi |-> voronoi,
                              data_none |-> data_none, data |-> data,
                              border |-> border, resolution |-> resolution,
                              make_gif |-> make_gif, make_mp4 |-> make_mp4,
                              fig |-> "none"]
                  /\ pc' = "armed"
             ELSE /\ pc' = "TypeError"
                  /\ UNCHANGED self
    /\ UNCHANGED <<trainer, ax, sink, ng, notRun>>

\* the classes of vis.py that inherit every hook but on_epoch_end
Vis2DClasses == {"VisGLVQ2D", "VisNG2D"}

Vis2D_init(cls) ==
    /\ pc = "idle"
    /\ \E kw \in GateKwargs, show, tensorboard, block \in BOOLEAN :
          /\ hist' = [hist EXCEPT !.kw = kw]
          /\ IF Vis2D_accepts(kw)
             THEN /\ self' = [cls |-> cls,
                              show_last_only |-> kw.show_last_only,
                              show |-> show, tensorboard |-> tensorboard,
                              block |-> block, fig |-> "open"]
                  /\ pc' = "armed"
             ELSE /\ pc' = "TypeError"
                  /\ UNCHANGED self
    /\ UNCHANGED <<trainer, ax, sink, ng, notRun>>

\* ------------------------------------------------------------ the driver
\* the hook the driver calls first in an epoch, per class
FirstHook(obj) == IF obj.cls = "VisPointProtos" THEN "epoch_start" ELSE "epoch_end"

\* after the last hook of an epoch: the next epoch, or the end of training
AfterEpoch(obj, tr) ==
    IF tr.current_epoch + 1 < tr.max_epochs
    THEN [pc |-> FirstHook(obj), tr |-> [tr EXCEPT !.current_epoch = @ + 1]]
    ELSE [pc |-> "train_end", tr |-> tr]

\* VisWeights.on_train_start: figure, axes and camera are created here
VisPointProtos_on_train_start ==
    /\ pc = "armed"
    /\ self.cls = "VisPointProtos"
    /\ self' = [self EXCEPT !.fig = "open"]
    /\ ax' = {}
    /\ sink' = [sink EXCEPT !.frames = <<>>]
    /\ pc' = IF trainer.max_epochs > 0 THEN "epoch_start" ELSE "train_end"
    /\ UNCHANGED <<trainer, hist, ng, notRun>>

\* Vis2DAbstract has no on_train_start: the driver goes on to the epochs
Vis2D_train_start ==
    /\ pc = "armed"
    /\ self.cls \in Vis2DClasses
    /\ pc' = IF trainer.max_epochs > 0 THEN "epoch_end" ELSE "train_end"
    /\ UNCHANGED <<self, trainer, ax, sink, hist, ng, notRun>>

\* a setup that never clears the axes, whatever snap says
clean_and_setup_ax_keep(obj, axes) == axes

\* VisWeights._clean_and_setup_ax
clean_and_setup_ax(obj, axes) == IF ~obj.snap THEN {} ELSE axes

Artist(kind, epoch) == [kind |-> kind, epoch |-> epoch]

\* VisPointProtos.on_epoch_start
VisPointProtos_on_epoch_start ==
    /\ pc = "epoch_start"
    /\ self.cls = "VisPointProtos"
    /\ \E protos \in ProtoClouds, oom \in BOOLEAN :
        LET epoch == trainer.current_epoch
            ax1 == clean_and_setup_ax(self, ax)
            ax2 == IF self.data_none THEN ax1 ELSE ax1 \cup {Artist("data", epoch)}
            meshed == ~self.data_none /\ self.voronoi
            grid == voronoi_mesh(self.data, protos, self.border, self.resolution, oom)
        IN  IF skip_epoch(self, epoch)
            THEN /\ hist' = [hist EXCEPT !.ret = @ \cup {Ret("on_epoch_start", epoch, "True")}]
                 /\ pc' = "epoch_end"
                 /\ UNCHANGED ax
            ELSE IF meshed /\ grid.status = "ValueError"
            THEN /\ hist' = [hist EXCEPT !.fired = @ \cup {epoch},
                                         !.ret = @ \cup {Ret("on_epoch_start", epoch, "raise ValueError")}]
                 /\ pc' = "raised"
                 /\ ax' = ax2
            ELSE /\ (~meshed => ~oom)
                 /\ hist' = [hist EXCEPT !.fired = @ \cup {epoch},
                                         !.ret = @ \cup {Ret("on_epoch_start", epoch, "None")}]
                 /\ pc' = "epoch_end"
                 /\ ax' = (IF meshed THEN ax2 \cup {Artist("contour", epoch)} ELSE ax2)
                              \cup {Artist("protos", epoch)}
    /\ UNCHANGED <<self, trainer, sink, ng, notRun>>

\* VisWeights._display_logs
display_logs(obj, axes, epoch) ==
    IF obj.display_logs THEN axes \cup {Artist("logs", epoch)} ELSE axes

\* VisWeights._show_and_save
show_and_save(obj, snk, epoch) ==
    [snk EXCEPT !.pauses = IF obj.show THEN @ + 1 ELSE @,
                !.files = IF obj.save THEN @ \cup {epoch} ELSE @,
                !.frames = IF obj.snap THEN Append(@, epoch) ELSE @]

\* VisPointProtos.on_epoch_end
VisPointProtos_on_epoch_end ==
    /\ pc = "epoch_end"
    /\ self.cls = "VisPointProtos"
    /\ LET epoch == trainer.current_epoch
           nxt == AfterEpoch(self, trainer)
       IN  /\ ax' = display_logs(self, ax, epoch)
           /\ sink' = show_and_save(self, sink, epoch)
           /\ hist' = [hist EXCEPT !.ret = @ \cup {Ret("on_epoch_end", epoch, "None")}]
           /\ pc' = nxt.pc
           /\ trainer' = nxt.tr
    /\ UNCHANGED <<self, ng, notRun>>

\* VisWeights.on_train_end
VisPointProtos_on_train_end ==
    /\ pc = "train_end"
    /\ self.cls = "VisPointProtos"
    /\ sink' = [sink EXCEPT !.exports =
                   (IF self.make_gif THEN @ \cup {"gif"} ELSE @)
                   \cup (IF self.snap /\ self.make_mp4 THEN {"mp4"} ELSE {})]
    /\ pc' = "closed"
    /\ UNCHANGED <<self, trainer, ax, hist, ng, notRun>>

\* Vis2DAbstract.log_and_display
log_and_display(obj, snk, epoch) ==
    [snk EXCEPT !.tb = IF obj.tensorboard THEN @ \cup {epoch} ELSE @,
                !.pauses = IF obj.show /\ ~obj.block THEN @ + 1 ELSE @,
                !.shows = IF obj.show /\ obj.block THEN @ + 1 ELSE @]

\* Vis2DAbstract.setup_ax, plot_data, plot_protos: ax.cla() drops every
\* earlier artist, then data and prototypes are scattered
setup_and_scatter(epoch) == {Artist("data", epoch), Artist("protos", epoch)}

\* VisGLVQ2D.on_epoch_end of vis.py
VisGLVQ2D_on_epoch_end ==
    /\ pc = "epoch_end"
    /\ self.cls = "VisGLVQ2D"
    /\ LET epoch == trainer.current_epoch
           nxt == AfterEpoch(self, trainer)
       IN  /\ IF ~precheck(self, trainer)
              THEN /\ hist' = [hist EXCEPT !.ret = @ \cup {Ret("on_epoch_end", epoch, "True")}]
                   /\ UNCHANGED <<ax, sink>>
              ELSE /\ hist' = [hist EXCEPT !.fired = @ \cup {epoch},
                                           !.ret = @ \cup {Ret("on_epoch_end", epoch, "None")}]
                   /\ ax' = setup_and_scatter(epoch) \cup {Artist("contour", epoch)}
                   /\ sink' = log_and_display(self, sink, epoch)
           /\ pc' = nxt.pc
           /\ trainer' = nxt.tr
    /\ UNCHANGED <<self, ng, notRun>>

\* Vis2DAbstract.on_train_end: plt.close()
Vis2D_on_train_end ==
    /\ pc = "train_end"
    /\ self.cls \in Vis2DClasses
    /\ self' = [self EXCEPT !.fig = "closed"]
    /\ pc' = "closed"
    /\ UNCHANGED <<trainer, ax, sink, hist, ng, notRun>>

\* ------------------------------------------------------- initial values
NoMesh == [data |-> {}, protos |-> {}, border |-> 0, resolution |-> 1,
           variant |-> None, out |-> [status |-> None]]

NoGraph == [n |-> 0, cmat |-> <<>>, lines |-> <<>>]

NoFigures == [figs |-> <<>>, created |-> 0]

NoIngest == [dataset |-> <<>>, xdtype |-> None, ydtype |-> None,
             batch_size |-> 1, flatten_data |-> TRUE, out |-> <<>>]

IdleRun ==
    /\ pc = "idle"
    /\ self = [cls |-> None]
    /\ ax = {}
    /\ sink = EmptySink
    /\ hist = EmptyHist

Init ==
    /\ IdleRun
    /\ trainer \in [current_epoch : {0}, max_epochs : 0..MaxEpochs]
    /\ mesh = NoMesh
    /\ ng = NoGraph
    /\ plt = NoFigures
    /\ ctl = <<>>
    /\ ing = NoIngest

Next ==
    \/ VisPointProtos_init
    \/ Vis2D_init("VisGLVQ2D")
    \/ VisPointProtos_on_train_start
    \/ Vis2D_train_start
    \/ VisPointProtos_on_epoch_start
    \/ VisPointProtos_on_epoch_end
    \/ VisPointProtos_on_train_end
    \/ VisGLVQ2D_on_epoch_end
    \/ Vis2D_on_train_end

Spec == Init /\ [][Next]_vars

\* ================================================== the mesh engine alone
\* The prediction mesh of callbacks.VisGLVQ2D.on_epoch_end: margin 1 and step
\* 1/50 are fixed in the code.
glvq2d_mesh(x_train, protos) ==
    LET x == vstack(x_train, protos)
        x_min == ColMin(x, 1) - 1
        x_max == ColMax(x, 1) + 1
        y_min == ColMin(x, 2) - 1
        y_max == ColMax(x, 2) + 1
    IN  [status |-> "ok",
         xs |-> arange(x_min, x_max, 1, 50),
         ys |-> arange(y_min, y_max, 1, 50),
         x_min |-> x_min, x_max |-> x_max,
         y_min |-> y_min, y_max |-> y_max]

\* non-empty clouds of at most MaxCloud points
Clouds == {c \in SUBSET Points : c # {} /\ Cardinality(c) <= MaxCloud}

InitMesh ==
    /\ IdleRun
    /\ trainer = [current_epoch |-> 0, max_epochs |-> 0]
    /\ mesh \in [data : Clouds, protos : Clouds, border : 0..MaxBorder,
                 resolution : 1..MaxRes, variant : {None},
                 out : {[status |-> None]}]
    /\ ng = NoGraph
    /\ plt = NoFigures
    /\ ctl = <<>>
    /\ ing = NoIngest

\* lines 215-235 of VisPointProtos.on_epoch_start, on the mesh input
Mesh_voronoi ==
    /\ mesh.variant = None
    /\ \E oom \in BOOLEAN :
          mesh' = [mesh EXCEPT !.variant = "voronoi",
                               !.out = voronoi_mesh(mesh.data, mesh.protos, mesh.border,
                                                    mesh.resolution, oom)]
    /\ UNCHANGED <<pc, self, trainer, ax, sink, hist, ng, plt, ctl, ing>>

\* lines 297-302 of callbacks.VisGLVQ2D.on_epoch_end, on the mesh input
Mesh_glvq2d ==
    /\ mesh.variant = None
    /\ mesh' = [mesh EXCEPT !.variant = "glvq2d",
                            !.out = glvq2d_mesh(mesh.data, mesh.protos)]
    /\ UNCHANGED <<pc, self, trainer, ax, sink, hist, ng, plt, ctl, ing>>

NextMesh ==
    \/ Mesh_voronoi
    \/ Mesh_glvq2d

SpecMesh == InitMesh /\ [][NextMesh]_vars

\* the cloud the mesh is built from, and the margin the variant applies
MeshCloud == mesh.data \cup mesh.protos

MeshMargin == IF mesh.variant = "glvq2d" THEN 1 ELSE mesh.border

\* smallest and largest sample of an axis, scaled by the axis' den
AxisLo(a) == ArangeAt(a, 0)

AxisHi(a) == ArangeAt(a, a.n - 1)

\* C5: mesh bounding box.  Every grid returned has, on each axis, at least one
\* sample, its smallest sample at min - margin and its largest sample at
\* max + margin of the combined cloud.
C5_MeshBoundingBox ==
    (mesh.out.status = "ok"
        /\ ColMin(MeshCloud, 1) # ColMax(MeshCloud, 1)
        /\ ColMin(MeshCloud, 2) # ColMax(MeshCloud, 2)) =>
        LET xs == mesh.out.xs
            ys == mesh.out.ys
        IN  /\ xs.n >= 1
            /\ ys.n >= 1
            /\ AxisLo(xs) = (ColMin(MeshCloud, 1) - MeshMargin) * xs.den
            /\ AxisHi(xs) = (ColMax(MeshCloud, 1) + MeshMargin) * xs.den
            /\ AxisLo(ys) = (ColMin(MeshCloud, 2) - MeshMargin) * ys.den
            /\ AxisHi(ys) = (ColMax(MeshCloud, 2) + MeshMargin) * ys.den

\* C6: mesh grid size.  Every grid the voronoi mesh returns for a cloud whose
\* expanded range is non-zero on both axes has resolution samples on each axis.
C6_MeshGridSize ==
    (mesh.variant = "voronoi" /\ mesh.out.status = "ok"
        /\ mesh.out.x_max # mesh.out.x_min
        /\ mesh.out.y_max # mesh.out.y_min) =>
        /\ mesh.out.xs.n = mesh.resolution
        /\ mesh.out.ys.n = mesh.resolution
        /\ mesh.out.xs.n * mesh.out.ys.n = mesh.resolution * mesh.resolution

\* C7: degenerate cloud.  Whenever the combined cloud has a single coordinate
\* on some axis, the voronoi mesh fails (ValueError) and returns no grid.
C7_DegenerateFails ==
    (mesh.variant = "voronoi"
        /\ (\/ ColMin(MeshCloud, 1) = ColMax(MeshCloud, 1)
            \/ ColMin(MeshCloud, 2) = ColMax(MeshCloud, 2))) =>
        mesh.out.status = "ValueError"


\* ================================================= the topology graph (NG)
\* range(a, b) of Python, as a set
Range(a, b) == a..(b - 1)

\* the index pairs (i, j) of an n x n matrix in the order of two nested
\* loops over range(n)
LoopPairs(n) == [k \in 1..(n * n) |-> <<(k - 1) \div n, (k - 1) % n>>]

\* adjacency matrices pl_module.topology_layer.cmat may hold for n prototypes
Cmats(n) == [Range(0, n) \X Range(0, n) -> BOOLEAN]

\* "Draw connections" of vis.VisNG2D.on_epoch_end:
\* for i in range(n): for j in range(i, n): if cmat[i][j]: ax.plot(...)
draw_connections(n, cmat) ==
    SelectSeq(LoopPairs(n), LAMBDA p : p[2] \in Range(p[1], n) /\ cmat[p])

\* "Draw connections" of callbacks.VisNG2D.on_epoch_end:
\* for i in range(n): for j in range(n): if cmat[i][j]: ax.plot(...)
cb_draw_connections(n, cmat) ==
    SelectSeq(LoopPairs(n), LAMBDA p : p[2] \in Range(0, n) /\ cmat[p])

\* callbacks.VisNG2D.__init__: the figure is created at construction
cb_VisNG2D_init ==
    /\ pc = "idle"
    /\ self' = [cls |-> "cb_VisNG2D", fig |-> "open"]
    /\ pc' = "armed"
    /\ UNCHANGED <<trainer, ax, sink, hist, ng, notRun>>

\* callbacks.VisNG2D has no on_train_start
cb_VisNG2D_train_start ==
    /\ pc = "armed"
    /\ self.cls = "cb_VisNG2D"
    /\ pc' = IF trainer.max_epochs > 0 THEN "epoch_end" ELSE "train_end"
    /\ UNCHANGED <<self, trainer, ax, sink, hist, ng, notRun>>

\* vis.VisNG2D.on_epoch_end
VisNG2D_on_epoch_end ==
    /\ pc = "epoch_end"
    /\ self.cls = "VisNG2D"
    /\ \E n \in 0..MaxProtos :
       \E cmat \in Cmats(n) :
        LET epoch == trainer.current_epoch
            nxt == AfterEpoch(self, trainer)
        IN  /\ IF ~precheck(self, trainer)
               THEN /\ hist' = [hist EXCEPT !.ret = @ \cup {Ret("on_epoch_end", epoch, "True")}]
                    /\ UNCHANGED <<ax, sink, ng>>
               ELSE /\ hist' = [hist EXCEPT !.fired = @ \cup {epoch},
                                            !.ret = @ \cup {Ret("on_epoch_end", epoch, "None")}]
                    /\ ax' = setup_and_scatter(epoch)
                    /\ ng' = [n |-> n, cmat |-> cmat, lines |-> draw_connections(n, cmat)]
                    /\ sink' = log_and_display(self, sink, epoch)
            /\ pc' = nxt.pc
            /\ trainer' = nxt.tr
    /\ UNCHANGED <<self, notRun>>

\* callbacks.VisNG2D.on_epoch_end: no gate, ax.cla(), scatter, edges, pause
cb_VisNG2D_on_epoch_end ==
    /\ pc = "epoch_end"
    /\ self.cls = "cb_VisNG2D"
    /\ \E n \in 0..MaxProtos :
       \E cmat \in Cmats(n) :
        LET epoch == trainer.current_epoch
            nxt == AfterEpoch(self, trainer)
        IN  /\ hist' = [hist EXCEPT !.fired = @ \cup {epoch},
                                    !.ret = @ \cup {Ret("on_epoch_end", epoch, "None")}]
            /\ ax' = setup_and_scatter(epoch)
            /\ ng' = [n |-> n, cmat |-> cmat, lines |-> cb_draw_connections(n, cmat)]
            /\ sink' = [sink EXCEPT !.pauses = @ + 1]
            /\ pc' = nxt.pc
            /\ trainer' = nxt.tr
    /\ UNCHANGED <<self, notRun>>

\* callbacks.VisNG2D has no on_train_end: the figure stays open
cb_VisNG2D_train_end ==
    /\ pc = "train_end"
    /\ self.cls = "cb_VisNG2D"
    /\ pc' = "closed"
    /\ UNCHANGED <<self, trainer, ax, sink, hist, ng, notRun>>

InitNG ==
    /\ IdleRun
    /\ trainer \in [current_epoch : {0}, max_epochs : 0..2]
    /\ mesh = NoMesh
    /\ ng = NoGraph
    /\ plt = NoFigures
    /\ ctl = <<>>
    /\ ing = NoIngest

NextNG ==
    \/ Vis2D_init("VisNG2D")
    \/ cb_VisNG2D_init
    \/ Vis2D_train_start
    \/ cb_VisNG2D_train_start
    \/ VisNG2D_on_epoch_end
    \/ cb_VisNG2D_on_epoch_end
    \/ Vis2D_on_train_end
    \/ cb_VisNG2D_train_end

SpecNG == InitNG /\ [][NextNG]_vars

\* the index pairs (i, j), i <= j, whose adjacency entry is set
SetPairs(n, cmat) == {p \in Range(0, n) \X Range(0, n) : p[1] <= p[2] /\ cmat[p]}

\* C4: topology edges.  After a render cycle of a topology-graph controller the
\* canvas holds exactly one line segment per index pair (i, j), i <= j, whose
\* adjacency entry is set, and no unordered pair {i, j} is drawn twice.
C4_TopologyEdges ==
    (self.cls \in {"VisNG2D", "cb_VisNG2D"} /\ hist.fired # {}) =>
        /\ Len(ng.lines) = Cardinality(SetPairs(ng.n, ng.cmat))
        /\ \A a, b \in 1..Len(ng.lines) :
              a # b => {ng.lines[a][1], ng.lines[a][2]} # {ng.lines[b][1], ng.lines[b][2]}

\* C4, for the controller of vis.py alone
C4_TopologyEdges_vis ==
    (self.cls = "VisNG2D" /\ hist.fired # {}) =>
        /\ Len(ng.lines) = Cardinality(SetPairs(ng.n, ng.cmat))
        /\ \A a, b \in 1..Len(ng.lines) :
              a # b => {ng.lines[a][1], ng.lines[a][2]} # {ng.lines[b][1], ng.lines[b][2]}


\* ====================================================== canvas ownership
\* plt.figure(label) keeps one figure per label in a process-wide registry: a
\* label already registered makes that figure the active one and returns it,
\* a new label creates a figure.  The active figure is the last of figs.
HasLabel(P, label) == \E k \in 1..Len(P.figs) : P.figs[k].label = label

FigOf(P, label) == (CHOOSE k \in 1..Len(P.figs) : P.figs[k].label = label)

plt_figure(P, label) ==
    IF HasLabel(P, label)
    THEN LET k == FigOf(P, label)
         IN  [P EXCEPT !.figs = Append(SelectSeq(P.figs, LAMBDA f : f.label # label),
                                       P.figs[k])]
    ELSE [P EXCEPT !.figs = Append(P.figs, [id |-> P.created + 1, label |-> label,
                                            drawn |-> {}]),
                   !.created = P.created + 1]

\* the figure plt.figure(label) has just returned
plt_gcf(P) == P.figs[Len(P.figs)].id

\* plt.close(): destroys the active figure, whichever it is; no-op without one
plt_close(P) ==
    IF Len(P.figs) = 0 THEN P
    ELSE [P EXCEPT !.figs = SubSeq(P.figs, 1, Len(P.figs) - 1)]

IsOpen(P, id) == \E k \in 1..Len(P.figs) : P.figs[k].id = id

Titles == {"Prototype Visualization", "custom"}

Controllers == 1..NumControllers

\* Vis2DAbstract.__init__, lines 47-48: self.fig = plt.figure(self.title)
Vis2DAbstract_init(i) ==
    /\ ctl[i].st = "idle"
    /\ \E title \in Titles :
        LET P == plt_figure(plt, title)
        IN  /\ plt' = P
            /\ ctl' = [ctl EXCEPT ![i] = [st |-> "armed", title |-> title,
                                          fig |-> plt_gcf(P), draws |-> 0]]
    /\ UNCHANGED <<pc, self, trainer, ax, sink, hist, mesh, ng, ing>>

\* on_epoch_end of a Vis2DAbstract: setup_ax clears and redraws self.fig
\* (a figure pyplot has destroyed is still drawn on, unseen by the registry)
Vis2DAbstract_on_epoch_end(i) ==
    /\ ctl[i].st = "armed"
    /\ ctl[i].draws < MaxDraws
    /\ ctl' = [ctl EXCEPT ![i].draws = @ + 1]
    /\ plt' = [plt EXCEPT !.figs =
                  [k \in 1..Len(plt.figs) |->
                      IF plt.figs[k].id = ctl[i].fig
                      THEN [plt.figs[k] EXCEPT !.drawn = {i}]
                      ELSE plt.figs[k]]]
    /\ UNCHANGED <<pc, self, trainer, ax, sink, hist, mesh, ng, ing>>

\* Vis2DAbstract.on_train_end: plt.close()
Vis2DAbstract_on_train_end(i) ==
    /\ ctl[i].st = "armed"
    /\ plt' = plt_close(plt)
    /\ ctl' = [ctl EXCEPT ![i].st = "closed"]
    /\ UNCHANGED <<pc, self, trainer, ax, sink, hist, mesh, ng, ing>>

InitFig ==
    /\ IdleRun
    /\ trainer = [current_epoch |-> 0, max_epochs |-> 0]
    /\ mesh = NoMesh
    /\ ng = NoGraph
    /\ plt = NoFigures
    /\ ctl = [i \in Controllers |-> [st |-> "idle", title |-> None, fig |-> 0, draws |-> 0]]
    /\ ing = NoIngest

NextFig ==
    \E i \in Controllers :
        \/ Vis2DAbstract_init(i)
        \/ Vis2DAbstract_on_epoch_end(i)
        \/ Vis2DAbstract_on_train_end(i)

SpecFig == InitFig /\ [][NextFig]_vars

\* C9: canvas ownership.  No two controllers hold the same canvas; the canvas
\* of a controller still in training is open; the canvas of a controller whose
\* training-end hook has run is released.
C9_CanvasOwnership ==
    /\ \A i, j \in Controllers :
          (i # j /\ ctl[i].st # "idle" /\ ctl[j].st # "idle") => ctl[i].fig # ctl[j].fig
    /\ \A i \in Controllers :
          /\ ctl[i].st = "armed" => IsOpen(plt, ctl[i].fig)
          /\ ctl[i].st = "closed" => ~IsOpen(plt, ctl[i].fig)

\* ========================================================= data ingestion
\* A tensor is its element type and its samples in order.  A feature sample
\* is a matrix (a sequence of rows), a label is a number.
Tensor(dtype, rows) == [dtype |-> dtype, rows |-> rows]

\* torch.tensor([]): empty, of the default element type
tensor_empty == Tensor("float32", <<>>)

\* the element type torch.cat gives tensors of the types a and b
Promote(a, b) ==
    IF a = "float64" \/ b = "float64" THEN "float64"
    ELSE IF a = "float32" \/ b = "float32" THEN "float32"
    ELSE "int64"

TwoTo24 == 2^24

\* an integer stored as float32 (24-bit significand, ties to even), for
\* 0 <= v < 2^25; float64 and int64 hold every such v exactly
Float32Round(v) ==
    IF v <= TwoTo24 THEN v
    ELSE LET lo == 2 * (v \div 2)
         IN  IF lo = v THEN v
             ELSE IF (lo \div 2) % 2 = 0 THEN lo ELSE lo + 2

Cast(v, dtype) == IF dtype = "float32" THEN Float32Round(v) ELSE v

CastLabel(y, dtype) == Cast(y, dtype)

CastFeature(x, dtype) ==
    [r \in DOMAIN x |-> [c \in DOMAIN x[r] |-> Cast(x[r][c], dtype)]]

\* torch.cat([a, b]) on label tensors and on feature tensors
cat_labels(a, b) ==
    LET d == Promote(a.dtype, b.dtype)
    IN  Tensor(d, [k \in 1..Len(a.rows) |-> CastLabel(a.rows[k], d)]
                  \o [k \in 1..Len(b.rows) |-> CastLabel(b.rows[k], d)])

cat_features(a, b) ==
    LET d == Promote(a.dtype, b.dtype)
    IN  Tensor(d, [k \in 1..Len(a.rows) |-> CastFeature(a.rows[k], d)]
                  \o [k \in 1..Len(b.rows) |-> CastFeature(b.rows[k], d)])

\* the batches a DataLoader over the samples D emits, batch_size bs, in order
RECURSIVE Batches(_, _)
Batches(D, bs) ==
    IF Len(D) = 0 THEN <<>>
    ELSE IF Len(D) <= bs THEN <<D>>
    ELSE <<SubSeq(D, 1, bs)>> \o Batches(SubSeq(D, bs + 1, Len(D)), bs)

\* the (x_b, y_b) pair the default collate makes of a batch of samples
Collate(batch, xdtype, ydtype) ==
    [x |-> Tensor(xdtype, [k \in 1..Len(batch) |-> batch[k].x]),
     y |-> Tensor(ydtype, [k \in 1..Len(batch) |-> batch[k].y])]

\* for x_b, y_b in data: x = torch.cat([x, x_b]); y = torch.cat([y, y_b])
RECURSIVE cat_batches(_, _, _, _)
cat_batches(acc, batches, xdtype, ydtype) ==
    IF Len(batches) = 0 THEN acc
    ELSE LET b == Collate(Head(batches), xdtype, ydtype)
         IN  cat_batches([x |-> cat_features(acc.x, b.x), y |-> cat_labels(acc.y, b.y)],
                         Tail(batches), xdtype, ydtype)

\* x.reshape(len(x), -1): every sample becomes the row-major vector of its entries
RECURSIVE ConcatRows(_)
ConcatRows(m) == IF Len(m) = 0 THEN <<>> ELSE Head(m) \o ConcatRows(Tail(m))

reshape_flat(x) == Tensor(x.dtype, [k \in 1..Len(x.rows) |-> ConcatRows(x.rows[k])])

\* Vis2DAbstract.__init__, lines 30-45, for each kind of data argument
ingest(kind, D, xdtype, ydtype, bs, flatten_data) ==
    LET got == IF kind = "Dataset"
               THEN Collate(Head(Batches(D, Len(D))), xdtype, ydtype)
               ELSE IF kind = "DataLoader"
               THEN cat_batches([x |-> tensor_empty, y |-> tensor_empty],
                                Batches(D, bs), xdtype, ydtype)
               ELSE Collate(D, xdtype, ydtype)
    IN  [x_train |-> IF flatten_data THEN reshape_flat(got.x) ELSE got.x,
         y_train |-> got.y]

DataKinds == {"pair", "DataLoader", "Dataset"}

XValues == {0, 1}

YValues == {0, 1, TwoTo24 + 1}

\* feature samples: 2 x 1 matrices
Samples == [x : {<<<<a>>, <<b>>>> : a, b \in XValues}, y : YValues]

Datasets == UNION {[1..n -> Samples] : n \in 1..MaxLen}

InitIngest ==
    /\ IdleRun
    /\ trainer = [current_epoch |-> 0, max_epochs |-> 0]
    /\ mesh = NoMesh
    /\ ng = NoGraph
    /\ plt = NoFigures
    /\ ctl = <<>>
    /\ ing \in [dataset : Datasets, xdtype : {"float32", "float64", "int64"},
                ydtype : {"int64", "float32"}, batch_size : 1..MaxLen,
                flatten_data : BOOLEAN, out : {<<>>}]
    /\ \A k \in 1..Len(ing.dataset) : Cast(ing.dataset[k].y, ing.ydtype) = ing.dataset[k].y

\* construct a controller on the dataset, handed over as `kind`
Vis2DAbstract_ingest(kind) ==
    /\ kind \notin DOMAIN ing.out
    /\ LET res == ingest(kind, ing.dataset, ing.xdtype, ing.ydtype,
                         ing.batch_size, ing.flatten_data)
       IN  ing' = [ing EXCEPT !.out = [k \in DOMAIN ing.out \cup {kind} |->
                                          IF k = kind THEN res ELSE ing.out[k]]]
    /\ UNCHANGED <<pc, self, trainer, ax, sink, hist, mesh, ng, plt, ctl>>

NextIngest ==
    \/ Vis2DAbstract_ingest("pair")
    \/ Vis2DAbstract_ingest("DataLoader")
    \/ Vis2DAbstract_ingest("Dataset")

SpecIngest == InitIngest /\ [][NextIngest]_vars

\* C10: ingestion equivalence.  Whatever kinds the dataset was handed over as,
\* the stored feature and label sequences hold the same values in the same
\* order, and as many features as labels as the dataset has samples.
C10_IngestionEquivalence ==
    /\ \A k1, k2 \in DOMAIN ing.out :
          /\ ing.out[k1].x_train.rows = ing.out[k2].x_train.rows
          /\ ing.out[k1].y_train.rows = ing.out[k2].y_train.rows
    /\ \A k \in DOMAIN ing.out :
          /\ Len(ing.out[k].x_train.rows) = Len(ing.dataset)
          /\ Len(ing.out[k].y_train.rows) = Len(ing.dataset)

\* C10 without the element values: lengths and order of the samples agree
C10_SameLengthAndOrder ==
    \A k1, k2 \in DOMAIN ing.out :
        /\ ing.out[k1].x_train.rows = ing.out[k2].x_train.rows
        /\ Len(ing.out[k1].y_train.rows) = Len(ing.out[k2].y_train.rows)
        /\ \A n \in 1..Len(ing.out[k1].y_train.rows) :
              Float32Round(ing.out[k1].y_train.rows[n]) = Float32Round(ing.out[k2].y_train.rows[n])


\* ============================================= claims on the training run
HookRan(hook, e) == \E r \in hist.ret : r.hook = hook /\ r.epoch = e

Returned(hook, e, val) == \E r \in hist.ret : r.hook = hook /\ r.epoch = e /\ r.val = val

IsMultiple(e, k) == \E m \in 0..e : e = m * k

FullRun == pc \in {"train_end", "closed"}

\* C1: interval gate.  For a VisPointProtos with interval k > 0, the epoch hook
\* that has run at epoch e started a render cycle iff e is a multiple of k, and
\* returned the skip signal otherwise; with a falsy interval every epoch whose
\* hook has run started a render cycle.
C1_IntervalGate ==
    (pc \notin {"idle", "TypeError"} /\ self.cls = "VisPointProtos") =>
        \A e \in 0..(trainer.max_epochs - 1) :
            HookRan("on_epoch_start", e) =>
                /\ (e \in hist.fired) <=> (self.interval = 0 \/ IsMultiple(e, self.interval))
                /\ (e \notin hist.fired) <=> Returned("on_epoch_start", e, "True")

\* C1 witness: a finished run of 4 epochs with interval 2 rendered at 0 and 2
C1_Witness ==
    /\ pc = "closed"
    /\ self.cls = "VisPointProtos"
    /\ self.interval = 2
    /\ trainer.max_epochs = 4
    /\ hist.fired = {0, 2}
    /\ Returned("on_epoch_start", 1, "True")
    /\ Returned("on_epoch_start", 3, "True")

\* C2: last-epoch-only gate.  With show_last_only and max_epochs = M >= 1, no
\* epoch but M - 1 draws, displays or forwards to telemetry, every other hook
\* returns the skip signal, and after the full run exactly the cycle of epoch
\* M - 1 has fired.
C2_LastEpochOnly ==
    (pc \notin {"idle", "TypeError"} /\ self.cls = "VisGLVQ2D" /\ self.show_last_only) =>
        LET M == trainer.max_epochs
        IN  /\ hist.fired \subseteq {M - 1}
            /\ \A r \in hist.ret : r.epoch # M - 1 => r.val = "True"
            /\ \A a \in ax : a.epoch = M - 1
            /\ sink.tb \subseteq {M - 1}
            /\ sink.pauses + sink.shows <= Cardinality(hist.fired)
            /\ (FullRun /\ M >= 1) =>
                  /\ hist.fired = {M - 1}
                  /\ \A e \in 0..(M - 1) : HookRan("on_epoch_end", e)

\* C2 witness: a finished run of 3 epochs rendered once, at epoch 2
C2_Witness ==
    /\ pc = "closed"
    /\ self.cls = "VisGLVQ2D"
    /\ self.show_last_only
    /\ trainer.max_epochs = 3
    /\ hist.fired = {2}
    /\ Returned("on_epoch_end", 0, "True")
    /\ Returned("on_epoch_end", 1, "True")

\* C3: combined gates.  A controller constructed with both an interval k > 0
\* and show_last_only = True exists and, over a full run of M epochs, renders
\* exactly the epochs that pass both gates (the last one, if a multiple of k).
C3_CombinedGates ==
    (/\ pc # "idle"
     /\ hist.kw.given = {"interval", "show_last_only"}
     /\ hist.kw.interval > 0
     /\ hist.kw.show_last_only) =>
        /\ pc # "TypeError"
        /\ (FullRun /\ trainer.max_epochs >= 1) =>
               hist.fired = {e \in {trainer.max_epochs - 1} : IsMultiple(e, hist.kw.interval)}

\* C8: render failures are not fatal.  No epoch hook raises to the driver:
\* every hook that ran returned None or the skip signal and the run goes on.
C8_RenderFailureNotFatal ==
    /\ pc # "raised"
    /\ \A r \in hist.ret : r.val \in {"None", "True"}

\* C11: empty export.  When an animation is requested and the run has captured
\* no frame and written no still image, the training-end hook assembles and
\* saves no animation.
C11_EmptyExport ==
    (/\ pc = "closed"
     /\ self.cls = "VisPointProtos"
     /\ (self.make_mp4 \/ self.make_gif)
     /\ sink.frames = <<>>
     /\ sink.files = {}) =>
        "mp4" \notin sink.exports

\* C11, for a run that captures no frame because capture is off (snap = False)
C11_NoCaptureNoVideo ==
    (pc = "closed" /\ self.cls = "VisPointProtos" /\ ~self.snap) =>
        (sink.frames = <<>> /\ "mp4" \notin sink.exports)

\* a render cycle fired at epoch e and its last hook has returned; no later
\* hook has acted yet
CycleEnded(e) ==
    /\ e \in hist.fired
    /\ Returned("on_epoch_end", e, "None")
    /\ \/ pc = FirstHook(self) /\ trainer.current_epoch = e + 1
       \/ pc = "train_end" /\ trainer.current_epoch = e

\* the canvas is cleared at the start of a cycle: snap off for the callbacks
\* class, always for the vis.py class
PreserveOff ==
    \/ self.cls = "VisPointProtos" /\ ~self.snap
    \/ self.cls = "VisGLVQ2D"

FrameEpochs == {sink.frames[i] : i \in 1..Len(sink.frames)}

\* C13: gating covers the whole cycle.  For a VisPointProtos, a still image is
\* written, a frame is captured and a display pause occurs only at epochs
\* whose render cycle fired; after the run the number of frames and of still
\* images each equal the number of cycles that fired, when capture or save is
\* enabled.
C13_GatingCoversCycle ==
    (self.cls = "VisPointProtos" /\ pc \in {"epoch_start", "epoch_end", "train_end", "closed"}) =>
        /\ sink.files \subseteq hist.fired
        /\ FrameEpochs \subseteq hist.fired
        /\ sink.pauses <= Cardinality(hist.fired)
        /\ FullRun =>
              /\ self.snap => Len(sink.frames) = Cardinality(hist.fired)
              /\ self.save => Cardinality(sink.files) = Cardinality(hist.fired)

\* C13, without an interval: every epoch fires, and then frames, still images
\* and pauses do match the cycles one for one
C13_UngatedCounts ==
    (self.cls = "VisPointProtos" /\ FullRun /\ self.interval = 0) =>
        /\ self.snap => Len(sink.frames) = Cardinality(hist.fired)
        /\ self.save => sink.files = hist.fired
        /\ self.show => sink.pauses = Cardinality(hist.fired)

====
